---- MODULE Spec2Model ----
(***************************************************************************)
(* Token lifecycle of BrunataApi (api2.py): the Token Store `_tokens`, the *)
(* session's Authorization header, and two asyncio tasks that call         *)
(* `_get_tokens` and may interleave at every `await` of the call.          *)
(*                                                                         *)
(* A dict is a function from the keys it holds to integers.  Token values  *)
(* are positive integers, 0 is the empty string, and None is what          *)
(* dict.get returns for a key that is absent.  Time is the integer clock   *)
(* `now` (seconds, as in int(datetime.now().timestamp())).                 *)
(***************************************************************************)
EXTENDS Integers, Sequences, FiniteSets, TLC

\* ---------------------------------------------------------------- bounds
\* The clock runs from 0 to MaxTime.
MaxTime == 3
\* The access-token lifetime the provider grants (expires_on - now) ranges
\* over 1..MaxLifetime.
MaxLifetime == 1
\* The refresh-token lifetime it declares (refresh_token_expires_in) ranges
\* over 1..MaxTTL.
MaxTTL == 3
\* The raw meter rows of one get_meters answer number 0..MaxRows.
MaxRows == 2
\* The samples (consumptionValues) of one consumption line number
\* 0..MaxSamples.
MaxSamples == 2

\* The two concurrent callers of _get_tokens (asyncio tasks).
Callers == {"c1", "c2"}

\* ------------------------------------------------------------ dict helpers
None == -1

EmptyDict == [k \in {} |-> 0]

Get(d, k) == IF k \in DOMAIN d THEN d[k] ELSE None

\* Python truthiness of a value read with dict.get: None and "" are falsy.
Truthy(v) == v # None /\ v # 0

\* dict.update: the keys of p overwrite those of d, the other keys stay.
Update(d, p) ==
    [k \in DOMAIN d \cup DOMAIN p |-> IF k \in DOMAIN p THEN p[k] ELSE d[k]]

\* ------------------------------------------------- _is_token_valid (44-56)
\* Faulty variant of IsTokenValid: the comparison the wrong way round.
IsTokenValidInverted(d, token, t) ==
    IF DOMAIN d = {} THEN FALSE
    ELSE IF token = "access_token" THEN Get(d, "expires_on") < t
    ELSE IF token = "refresh" THEN Get(d, "refresh_token_expires_on") < t
    ELSE TRUE

\* `match token`: the cases are "access_token" and "refresh"; any other
\* argument (the caller passes "refresh_token") matches no case and falls
\* through to `return True`.  fromtimestamp(ts) < now() is the expiry test.
IsTokenValid(d, token, t) ==
    IF DOMAIN d = {} THEN FALSE
    ELSE IF token = "access_token" THEN ~(Get(d, "expires_on") < t)
    ELSE IF token = "refresh" THEN ~(Get(d, "refresh_token_expires_on") < t)
    ELSE TRUE

\* datetime.fromtimestamp(None) raises TypeError when the key is absent.
IsTokenValidRaises(d, token) ==
    /\ DOMAIN d # {}
    /\ \/ token = "access_token" /\ "expires_on" \notin DOMAIN d
       \/ token = "refresh" /\ "refresh_token_expires_on" \notin DOMAIN d

\* ------------------------------------------------- provider token payloads
\* The JSON body of a token response, as far as _get_tokens reads it.
FullPayload(a, r, e, ttl) ==
    [k \in {"access_token", "token_type", "refresh_token", "expires_on",
            "refresh_token_expires_in"} |->
        CASE k = "access_token" -> a
          [] k = "token_type" -> 1
          [] k = "refresh_token" -> r
          [] k = "expires_on" -> e
          [] k = "refresh_token_expires_in" -> ttl]

Restrict(d, ks) == [k \in DOMAIN d \ ks |-> d[k]]

\* The token values the provider issues (opaque strings in the code).
TokenValues == {1, 2}

\* Keys an incomplete answer lacks: the access token (an error body, or
\* nothing at all), the refresh token with its lifetime, the lifetime alone,
\* or the access expiry.
Dropped ==
    { {"access_token", "token_type", "expires_on"},
      {"access_token", "token_type", "refresh_token", "expires_on",
       "refresh_token_expires_in"},
      {"refresh_token", "refresh_token_expires_in"},
      {"refresh_token_expires_in"},
      {"expires_on"} }

\* What `await response.json()` of a token response may yield at time t.
Payloads(t) ==
    { FullPayload(a, r, t + d, ttl) :
        a \in TokenValues, r \in TokenValues, d \in 1..MaxLifetime,
        ttl \in 1..MaxTTL }
    \cup { Restrict(FullPayload(1, r, t + 1, 1), ks) :
             r \in TokenValues, ks \in Dropped }

\* ------------------------------------------------- _get_tokens (236-255)
\* The Authorization header value f"{token_type} {access_token}".
Header(p) == <<Get(p, "token_type"), Get(p, "access_token")>>

NoHeader == <<>>

\* Line 244: the payload's refresh token differs from the stored one.
Rotated(p, d) == Get(p, "refresh_token") # Get(d, "refresh_token")

\* Faulty variant of WithRefreshExpiry: the expiry recomputed on every merge.
WithRefreshExpiryAlways(p, d, t) ==
    IF "refresh_token_expires_in" \in DOMAIN p
    THEN Update(p, "refresh_token_expires_on" :> (t + p["refresh_token_expires_in"]))
    ELSE p

\* Lines 244-250: tokens.update({"refresh_token_expires_on": now + ttl}).
WithRefreshExpiry(p, d, t) ==
    IF Rotated(p, d)
    THEN Update(p, "refresh_token_expires_on" :> (t + p["refresh_token_expires_in"]))
    ELSE p

\* Line 248: int + None raises TypeError, after the header was updated.
MergeRaises(p, d) ==
    /\ Truthy(Get(p, "access_token"))
    /\ Rotated(p, d)
    /\ "refresh_token_expires_in" \notin DOMAIN p

\* Faulty variant of StoreAfter: the store kept when the payload has no
\* access token.
StoreAfterKeep(p, d, t) ==
    IF Truthy(Get(p, "access_token"))
    THEN Update(d, WithRefreshExpiry(p, d, t))
    ELSE d

\* Lines 236-253: merge the payload, or clear the store.
StoreAfter(p, d, t) ==
    IF Truthy(Get(p, "access_token"))
    THEN Update(d, WithRefreshExpiry(p, d, t))
    ELSE EmptyDict

\* ------------------------------------------------------------------ state
VARIABLES
    now,            \* the wall clock
    tokens,         \* BrunataApi._tokens
    authorization,  \* session.headers["Authorization"], NoHeader when unset
    pc,             \* per caller: where its _get_tokens call is suspended
    path,           \* per caller: branch taken at line 231-234 / 59
    sent,           \* per caller: the HTTP requests sent by the current call
    ret,            \* per caller: outcome of the call (value or exception)
    last,           \* the call that ended last: its caller and the token
                    \* payload its flow produced (got = FALSE: no payload)
    cookie_jar,     \* session.cookie_jar: the names of the cookies it holds
    api,            \* the API operation in progress (see NoApi)
    meters,         \* MeterReader.meters: the catalog, meter id -> Meter
    reader,         \* the last call of a MeterReader method: its arguments,
                    \* the catalog before it, and its outcome
    data,           \* MeterDataSet.meters: meter id -> MeterData.values
    merge,          \* the last call of update_from_api_result: its argument,
                    \* the dataset before it, and its outcome
    client,         \* the BrunataClient.get_consumption call in progress
                    \* (see NoClientCall)
    coordinator,    \* BrunataOnlineDataUpdateCoordinator: data, the dataset
                    \* the host's entities read (None before the first
                    \* successful refresh), last_update_success, and the
                    \* number of queries
    cycle,          \* the locals of the _async_update_data call running or
                    \* run last (see NoCycle)
    sensor,         \* the last StatisticsSensor._update_data call: its
                    \* inputs and its outcome (see NoSensorCall)
    legacy          \* a Meter of the legacy client: _readings,
                    \* latest_reading, and its last add_reading call

\* The state of the token lifecycle, and the state of the other components.
tokenVars == <<now, tokens, authorization, pc, path, sent, ret, last, cookie_jar>>

clientVars == <<api>>

readerVars == <<meters, reader>>

mergeVars == <<data, merge>>

hostVars == <<client, coordinator, cycle, sensor>>

legacyVars == <<legacy>>

nonTokenVars == <<clientVars, readerVars, mergeVars, hostVars, legacyVars>>

vars == <<tokenVars, nonTokenVars>>

NoRet == [kind |-> "none", exc |-> ""]

NoLast == [caller |-> "", got |-> FALSE, payload |-> EmptyDict]

Request(kind, grant, rt) == [kind |-> kind, grant |-> grant, refresh_token |-> rt]

\* No operation of the API client is running.
NoApi == [op |-> "none", pc |-> "idle", auth |-> "none", requests |-> 0,
          out |-> "none"]

\* MappersConfiguration before any is fetched.
NoTable == [meterType |-> <<>>, measurementUnit |-> <<>>,
            allocationUnitMap |-> EmptyDict]

\* No method of the MeterReader has been called.
NoReaderCall ==
    [op |-> "none", table |-> NoTable, rows |-> <<>>, lines |-> <<>>,
     before |-> EmptyDict, raised |-> FALSE, readings |-> <<>>]

\* update_from_api_result has not been called.
NoMergeCall ==
    [op |-> "none", readings |-> <<>>, before |-> EmptyDict, raised |-> FALSE]

\* What self.data is bound to: None, or a MeterDataSet with the given
\* `meters`.
NoData == [bound |-> FALSE, meters |-> EmptyDict]

DataSet(m) == [bound |-> TRUE, meters |-> m]

\* The values self.last_update_success takes: the host's flag, a bool, and
\* the datetime line 58 assigns to it.
PyBool(b) == [type |-> "bool", v |-> IF b THEN 1 ELSE 0]

DateTime(t) == [type |-> "datetime", v |-> t]

\* The truth value `x or ...` tests: a datetime is always truthy.
IsTruthy(x) == x.type = "datetime" \/ x.v # 0

\* timedelta(days=7) of line 50, in ticks of the clock.
Week == 2

\* The integration is not set up: no coordinator exists.
NoCoordinator ==
    [pc |-> "unset", data |-> NoData, last_update_success |-> PyBool(TRUE),
     queries |-> 0]

\* No update cycle has run.  In a cycle, start and end are the locals of
\* lines 49-50, i is the query whose fetch is awaited, merged the dataset
\* `merged` is bound to, shared whether that is the object self.data is
\* bound to, before the value of self.data when the cycle began, plan the
\* answer the fetch of each query gets, and out how the cycle ended.
NoCycle ==
    [start |-> DateTime(0), end |-> 0, i |-> 0, merged |-> EmptyDict,
     shared |-> FALSE, before |-> NoData, plan |-> <<>>, out |-> "none"]

\* The host has no statistic of the entity: _get_last_stat returns None.
NoStat == [known |-> FALSE, start |-> 0, sum |-> 0]

\* _update_data has not been called.  Of a call, last_stat and meter are
\* the inputs (meter the series get_meter found, found whether it found
\* one), raised the exception that left the call ("" when it returned) and
\* imported the records handed to async_import_statistics.
NoSensorCall ==
    [op |-> "none", last_stat |-> NoStat, found |-> FALSE, values |-> EmptyDict,
     raised |-> "", imported |-> <<>>]

\* BrunataClient.get_consumption is not running.  While it runs, pc is the
\* operation it awaits next, errors the operations of this call that came
\* back as an error Result, auth_failed whether one of them failed to
\* authenticate, out and readings the call's outcome.  resolved is kept
\* from call to call: whether configure_metadata has returned since the
\* client was constructed.
NoClientCall ==
    [pc |-> "idle", errors |-> {}, auth_failed |-> FALSE, out |-> "none",
     readings |-> <<>>, resolved |-> FALSE]

\* latest_reading of a Meter that has no reading: None.
NoReading == [id |-> None, value |-> None, date |-> None]

\* A Meter as its constructor leaves it (libs/brunata/api.py 467-468), and
\* no add_reading call made.  Of a call, json is the argument, before the
\* readings and the latest reading when it began, returned its result.
NewMeter ==
    [readings |-> EmptyDict, latest_reading |-> NoReading, op |-> "none",
     json |-> NoReading, before |-> [readings |-> EmptyDict,
                                     latest_reading |-> NoReading],
     returned |-> FALSE]

Init ==
    /\ now = 0
    /\ tokens = EmptyDict
    /\ authorization = NoHeader
    /\ pc = [c \in Callers |-> "idle"]
    /\ path = [c \in Callers |-> "none"]
    /\ sent = [c \in Callers |-> <<>>]
    /\ ret = [c \in Callers |-> NoRet]
    /\ last = NoLast
    /\ cookie_jar = {}
    /\ api = NoApi
    /\ meters = EmptyDict
    /\ reader = NoReaderCall
    /\ data = EmptyDict
    /\ merge = NoMergeCall
    /\ client = NoClientCall
    /\ coordinator = NoCoordinator
    /\ cycle = NoCycle
    /\ sensor = NoSensorCall
    /\ legacy = NewMeter

\* --------------------------------------------------------- shared endings
\* Faulty variant of Raise: the step that fails empties the store itself.
RaiseClearing(c, exc) ==
    /\ pc' = [pc EXCEPT ![c] = "done"]
    /\ ret' = [ret EXCEPT ![c] = [kind |-> "raised", exc |-> exc]]
    /\ last' = [caller |-> c, got |-> FALSE, payload |-> EmptyDict]
    /\ tokens' = EmptyDict
    /\ UNCHANGED authorization

\* An exception leaves _get_tokens: nothing after the raise runs.
Raise(c, exc) ==
    /\ pc' = [pc EXCEPT ![c] = "done"]
    /\ ret' = [ret EXCEPT ![c] = [kind |-> "raised", exc |-> exc]]
    /\ last' = [caller |-> c, got |-> FALSE, payload |-> EmptyDict]
    /\ UNCHANGED <<tokens, authorization>>

\* Faulty variant of Complete: line 255 returns bool(tokens), the truth
\* value of the payload, instead of bool(self._tokens).
CompleteReturningPayload(c, p) ==
    /\ pc' = [pc EXCEPT ![c] = "done"]
    /\ last' = [caller |-> c, got |-> TRUE, payload |-> p]
    /\ IF MergeRaises(p, tokens)
       THEN /\ authorization' = Header(p)
            /\ tokens' = tokens
            /\ ret' = [ret EXCEPT ![c] = [kind |-> "raised", exc |-> "TypeError"]]
       ELSE /\ authorization' = IF Truthy(Get(p, "access_token"))
                                THEN Header(p) ELSE authorization
            /\ tokens' = StoreAfter(p, tokens, now)
            /\ ret' = [ret EXCEPT ![c] =
                         [kind |-> IF DOMAIN p # {} THEN "true" ELSE "false",
                          exc |-> ""]]

\* Lines 236-255 with the payload p, run without suspension.
Complete(c, p) ==
    /\ pc' = [pc EXCEPT ![c] = "done"]
    /\ last' = [caller |-> c, got |-> TRUE, payload |-> p]
    /\ IF MergeRaises(p, tokens)
       THEN /\ authorization' = Header(p)
            /\ tokens' = tokens
            /\ ret' = [ret EXCEPT ![c] = [kind |-> "raised", exc |-> "TypeError"]]
       ELSE /\ authorization' = IF Truthy(Get(p, "access_token"))
                                THEN Header(p) ELSE authorization
            /\ tokens' = StoreAfter(p, tokens, now)
            /\ ret' = [ret EXCEPT ![c] =
                         [kind |-> IF DOMAIN StoreAfter(p, tokens, now) # {}
                                   THEN "true" ELSE "false",
                          exc |-> ""]]

\* ------------------------------------------------------------ _get_tokens
\* Lines 231-234 and, on the renew branch, _renew_tokens up to its await.
GetTokens(c) ==
    /\ pc[c] = "idle"
    /\ UNCHANGED <<now, cookie_jar, nonTokenVars>>
    /\ IF ~IsTokenValid(tokens, "refresh_token", now)
       THEN \* _b2c_auth, suspended in _calculate_code_challenge (line 101)
            /\ pc' = [pc EXCEPT ![c] = "challenge"]
            /\ path' = [path EXCEPT ![c] = "b2c"]
            /\ UNCHANGED <<tokens, authorization, sent, ret, last>>
       ELSE IF IsTokenValidRaises(tokens, "access_token")
       THEN /\ path' = [path EXCEPT ![c] = "renew"]
            /\ Raise(c, "TypeError")
            /\ UNCHANGED sent
       ELSE IF IsTokenValid(tokens, "access_token", now)
       THEN \* _renew_tokens returns self._tokens (line 64)
            /\ path' = [path EXCEPT ![c] = "noop"]
            /\ Complete(c, tokens)
            /\ UNCHANGED sent
       ELSE \* POST /token with grant_type=refresh_token (lines 67-75)
            /\ pc' = [pc EXCEPT ![c] = "renew_wait"]
            /\ path' = [path EXCEPT ![c] = "renew"]
            /\ sent' = [sent EXCEPT ![c] =
                          <<Request("token", "refresh_token",
                                    Get(tokens, "refresh_token"))>>]
            /\ UNCHANGED <<tokens, authorization, ret, last>>

\* ------------------------------------------------------ _b2c_auth (89-152)
Send(c, req) == sent' = [sent EXCEPT ![c] = Append(@, req)]

\* Lines 99-100: code_verifier, a local of the flow, made from 40 random
\* bytes.  Two flows draw the same bytes with negligible probability, so
\* the verifier of a flow is a value of its own, named after the task that
\* runs the flow.
CodeVerifier(c) == <<"verifier", c>>

\* _hash (82-84): the SHA-256 digest of the verifier, base64url without
\* padding.  Different verifiers give different challenges, and a
\* challenge is not a verifier.
Challenge(code_verifier) == <<"S256", code_verifier[2]>>

\* _call_authorize (205-223): GET /authorize with the code challenge.
AuthorizeRequest(code_challenge) ==
    [kind |-> "authorize", grant |-> "", refresh_token |-> None,
     code_challenge |-> code_challenge]

\* The value of the `code` parameter of a Location header that has one.
AuthCode == 1

\* Faulty variant of TokenExchange: a verifier drawn anew for the request.
TokenExchangeFresh(auth_code, code_verifier) ==
    [kind |-> "token", grant |-> "authorization_code", refresh_token |-> None,
     code |-> auth_code, code_verifier |-> <<"verifier", "fresh">>]

\* call_token (154-165): POST /token with grant_type=authorization_code,
\* the code and the verifier it is given.
TokenExchange(auth_code, code_verifier) ==
    [kind |-> "token", grant |-> "authorization_code", refresh_token |-> None,
     code |-> auth_code, code_verifier |-> code_verifier]

\* The cookie the provider sets with the /authorize page (line 107).
CsrfCookie == "x-ms-cpim-csrf"

\* Faulty variant of SetCookie: the response's cookie is not stored.
SetCookieDropped(jar, name) == jar

\* _call_authorize (205-223) sends the request with self._session.get: the
\* session stores the cookies of the response in its own cookie jar, the one
\* lines 122 and 130 read back with self._session.cookie_jar.filter_cookies.
SetCookie(jar, name) == jar \cup {name}

\* Line 101, _calculate_code_challenge (81-87).  run_in_executor(None, _hash,
\* None) hands _hash, which takes no parameter, one positional argument, so
\* the awaited future raises TypeError.  The outcome in which the challenge
\* is computed is kept next to it, so that the steps after line 101 are
\* covered as well; then line 102 sends GET /authorize.
CodeChallenge(c) ==
    /\ pc[c] = "challenge"
    /\ UNCHANGED <<now, path, cookie_jar, nonTokenVars>>
    /\ \/ /\ Raise(c, "TypeError")
          /\ UNCHANGED sent
       \/ /\ pc' = [pc EXCEPT ![c] = "authorize_wait"]
          /\ Send(c, AuthorizeRequest(Challenge(CodeVerifier(c))))
          /\ UNCHANGED <<tokens, authorization, ret, last>>

\* Lines 102-110: the /authorize response.  A transport failure raises out
\* of session.get; without the CSRF cookie cookies.get returns None and
\* `.value` raises AttributeError, which `except KeyError` does not catch.
AuthorizeResponse(c) ==
    /\ pc[c] = "authorize_wait"
    /\ UNCHANGED <<now, path, sent, nonTokenVars>>
    /\ \E o \in {"error", "no_cookie", "ok"} :
         CASE o = "error" -> Raise(c, "ClientError") /\ UNCHANGED cookie_jar
           [] o = "no_cookie" -> Raise(c, "AttributeError") /\ UNCHANGED cookie_jar
           [] o = "ok" -> /\ pc' = [pc EXCEPT ![c] = "authorize_text"]
                          /\ cookie_jar' = SetCookie(cookie_jar, CsrfCookie)
                          /\ UNCHANGED <<tokens, authorization, ret, last>>

\* Lines 111-129: the body of the /authorize response.  Without a SETTINGS
\* block the flow returns {}; a SETTINGS block without transId raises
\* IndexError at `[...][0]`; otherwise POST /SelfAsserted is sent.
AuthorizeText(c) ==
    /\ pc[c] = "authorize_text"
    /\ UNCHANGED <<now, path, cookie_jar, nonTokenVars>>
    /\ \E o \in {"settings", "no_settings", "no_transid"} :
         CASE o = "settings" ->
                /\ pc' = [pc EXCEPT ![c] = "selfasserted_wait"]
                /\ Send(c, Request("selfasserted", "", None))
                /\ UNCHANGED <<tokens, authorization, ret, last>>
           [] o = "no_settings" -> Complete(c, EmptyDict) /\ UNCHANGED sent
           [] o = "no_transid" -> Raise(c, "IndexError") /\ UNCHANGED sent

\* Lines 129-134: `assert req_auth.status == 200`, then GET .../confirmed.
SelfAssertedResponse(c) ==
    /\ pc[c] = "selfasserted_wait"
    /\ UNCHANGED <<now, path, cookie_jar, nonTokenVars>>
    /\ \E o \in {"error", "status_200", "status_other"} :
         CASE o = "error" -> Raise(c, "ClientError") /\ UNCHANGED sent
           [] o = "status_other" -> Raise(c, "AssertionError") /\ UNCHANGED sent
           [] o = "status_200" ->
                /\ pc' = [pc EXCEPT ![c] = "confirmed_wait"]
                /\ Send(c, Request("confirmed", "", None))
                /\ UNCHANGED <<tokens, authorization, ret, last>>

\* Lines 134-151: headers["Location"] raises KeyError when the header is
\* missing (outside the try); the assert fails when it does not start with
\* REDIRECT; a Location without `code` returns {}; otherwise POST /token
\* with grant_type=authorization_code is sent.
ConfirmedResponse(c) ==
    /\ pc[c] = "confirmed_wait"
    /\ UNCHANGED <<now, path, cookie_jar, nonTokenVars>>
    /\ \E o \in {"error", "no_location", "elsewhere", "no_code", "code"} :
         CASE o = "error" -> Raise(c, "ClientError") /\ UNCHANGED sent
           [] o = "no_location" -> Raise(c, "KeyError") /\ UNCHANGED sent
           [] o = "elsewhere" -> Raise(c, "AssertionError") /\ UNCHANGED sent
           [] o = "no_code" -> Complete(c, EmptyDict) /\ UNCHANGED sent
           [] o = "code" ->
                /\ pc' = [pc EXCEPT ![c] = "token_wait"]
                /\ Send(c, TokenExchange(AuthCode, CodeVerifier(c)))
                /\ UNCHANGED <<tokens, authorization, ret, last>>

\* Line 151, call_token (154-165): the response of any status is returned.
TokenResponse(c) ==
    /\ pc[c] = "token_wait"
    /\ UNCHANGED <<now, path, sent, cookie_jar, nonTokenVars>>
    /\ \E o \in {"error", "response"} :
         CASE o = "error" -> Raise(c, "ClientError")
           [] o = "response" -> /\ pc' = [pc EXCEPT ![c] = "token_json"]
                                /\ UNCHANGED <<tokens, authorization, ret, last>>

\* Line 152 `await tokens.json()`, then lines 236-255 of _get_tokens.
TokenJson(c) ==
    /\ pc[c] = "token_json"
    /\ UNCHANGED <<now, path, sent, cookie_jar, nonTokenVars>>
    /\ \/ \E p \in Payloads(now) : Complete(c, p)
       \/ Raise(c, "ContentTypeError")

\* -------------------------------------------------- _renew_tokens (66-79)
\* The refresh request went through _api_wrapper (257-289).  A 2xx answer
\* is Result(response).  A non-2xx status or a transport error is caught
\* inside the wrapper and comes back as Result(exception): line 79 then
\* calls .json() on the exception, AttributeError, outside the try.  When
\* the async_timeout block expires, TimeoutError is raised at the block's
\* exit, leaves the wrapper, and line 76 turns it into {}.
RenewResponse(c) ==
    /\ pc[c] = "renew_wait"
    /\ UNCHANGED <<now, path, sent, cookie_jar, nonTokenVars>>
    /\ \E o \in {"ok", "status", "client_error", "timeout"} :
         CASE o = "ok" -> /\ pc' = [pc EXCEPT ![c] = "renew_json"]
                          /\ UNCHANGED <<tokens, authorization, ret, last>>
           [] o = "status" -> Raise(c, "AttributeError")
           [] o = "client_error" -> Raise(c, "AttributeError")
           [] o = "timeout" -> Complete(c, EmptyDict)

\* Line 79 `await tokens.value.json()`, then lines 236-255 of _get_tokens.
RenewJson(c) ==
    /\ pc[c] = "renew_json"
    /\ UNCHANGED <<now, path, sent, cookie_jar, nonTokenVars>>
    /\ \/ \E p \in Payloads(now) : Complete(c, p)
       \/ Raise(c, "ContentTypeError")

\* The caller takes the result; the task is free for another call.
Return(c) ==
    /\ pc[c] = "done"
    /\ pc' = [pc EXCEPT ![c] = "idle"]
    /\ path' = [path EXCEPT ![c] = "none"]
    /\ sent' = [sent EXCEPT ![c] = <<>>]
    /\ ret' = [ret EXCEPT ![c] = NoRet]
    /\ UNCHANGED <<now, tokens, authorization, last, cookie_jar, nonTokenVars>>

Tick ==
    /\ now < MaxTime
    /\ now' = now + 1
    /\ UNCHANGED <<tokens, authorization, pc, path, sent, ret, last, cookie_jar,
                   nonTokenVars>>

Next ==
    \/ \E c \in Callers : GetTokens(c)
    \/ \E c \in Callers : CodeChallenge(c)
    \/ \E c \in Callers : AuthorizeResponse(c)
    \/ \E c \in Callers : AuthorizeText(c)
    \/ \E c \in Callers : SelfAssertedResponse(c)
    \/ \E c \in Callers : ConfirmedResponse(c)
    \/ \E c \in Callers : TokenResponse(c)
    \/ \E c \in Callers : TokenJson(c)
    \/ \E c \in Callers : RenewResponse(c)
    \/ \E c \in Callers : RenewJson(c)
    \/ \E c \in Callers : Return(c)
    \/ Tick

Spec == Init /\ [][Next]_vars

\* ------------------------------------------- API operations (api2.py 291-364)
\* BrunataClient awaits its operations one after the other (client.py 23-52),
\* so one coroutine runs them.
ApiCaller == "c1"

Ops == {"get_mapping_configuration", "get_allocation_units", "get_meters",
        "get_consumption"}

\* Faulty variant of OpContinues: the request is sent whatever _get_tokens
\* returned.
OpContinuesAlways(kind) == kind \in {"true", "false"}

\* `if not await self._get_tokens(): return Result(Exception(...))`: the
\* operation goes on only when _get_tokens returned True.
OpContinues(kind) == kind = "true"

\* An operation is called; its first statement awaits _get_tokens.
ApiCall(op) ==
    /\ api.pc = "idle"
    /\ pc[ApiCaller] = "idle"
    /\ api' = [op |-> op, pc |-> "auth", auth |-> "none", requests |-> 0,
               out |-> "none"]
    /\ UNCHANGED <<tokenVars, readerVars, mergeVars, hostVars, legacyVars>>

\* The awaited _get_tokens call starts.
ApiGetTokens ==
    /\ api.pc = "auth"
    /\ GetTokens(ApiCaller)

\* _get_tokens has ended.  An exception it raised propagates out of the
\* operation (no try around the await).  On False the operation returns
\* Result(Exception("Failed to get tokens")).  On True it calls _api_wrapper,
\* which sends the request to the metering API (line 264).
ApiAfterTokens ==
    /\ api.pc = "auth"
    /\ pc[ApiCaller] = "done"
    /\ pc' = [pc EXCEPT ![ApiCaller] = "idle"]
    /\ path' = [path EXCEPT ![ApiCaller] = "none"]
    /\ sent' = [sent EXCEPT ![ApiCaller] = <<>>]
    /\ ret' = [ret EXCEPT ![ApiCaller] = NoRet]
    /\ api' = IF ret[ApiCaller].kind = "raised"
              THEN [api EXCEPT !.auth = "raised", !.pc = "returned", !.out = "thrown"]
              ELSE IF OpContinues(ret[ApiCaller].kind)
              THEN [api EXCEPT !.auth = ret[ApiCaller].kind, !.pc = "wait",
                               !.requests = @ + 1]
              ELSE [api EXCEPT !.auth = ret[ApiCaller].kind, !.pc = "returned",
                               !.out = "error"]
    /\ UNCHANGED <<now, tokens, authorization, last, cookie_jar, readerVars,
                   mergeVars, hostVars, legacyVars>>

\* _api_wrapper (257-289) while the request is awaited.  A 2xx answer is
\* Result(response).  raise_for_status (ClientResponseError), a transport
\* error and a timeout raised by the session are caught by the except
\* clauses and come back as Result(exception), which the operation returns.
\* When the async_timeout block expires the task is cancelled: CancelledError
\* passes every `except Exception`, and the block's exit raises TimeoutError
\* outside the try, so it leaves the wrapper and the operation.
ApiResponse ==
    /\ api.pc = "wait"
    /\ \E o \in {"ok", "status", "client_error", "session_timeout", "timeout"} :
         api' = CASE o = "ok" -> [api EXCEPT !.pc = "parse"]
                  [] o \in {"status", "client_error", "session_timeout"} ->
                       [api EXCEPT !.pc = "returned", !.out = "error"]
                  [] o = "timeout" ->
                       [api EXCEPT !.pc = "returned", !.out = "thrown"]
    /\ UNCHANGED <<tokenVars, readerVars, mergeVars, hostVars, legacyVars>>

\* from_response (utils.py 10-13), awaited outside any try: response.json()
\* and model_validate raise on a body that is not the expected JSON.
ApiParse ==
    /\ api.pc = "parse"
    /\ \E body \in {"valid", "malformed"} :
         api' = [api EXCEPT !.pc = "returned",
                            !.out = IF body = "valid" THEN "value" ELSE "thrown"]
    /\ UNCHANGED <<tokenVars, readerVars, mergeVars, hostVars, legacyVars>>

\* The caller has the operation's outcome.
ApiReturn ==
    /\ api.pc = "returned"
    /\ api' = NoApi
    /\ UNCHANGED <<tokenVars, readerVars, mergeVars, hostVars, legacyVars>>

NextApi ==
    \/ \E op \in Ops : ApiCall(op)
    \/ ApiGetTokens
    \/ CodeChallenge(ApiCaller)
    \/ AuthorizeResponse(ApiCaller)
    \/ AuthorizeText(ApiCaller)
    \/ SelfAssertedResponse(ApiCaller)
    \/ ConfirmedResponse(ApiCaller)
    \/ TokenResponse(ApiCaller)
    \/ TokenJson(ApiCaller)
    \/ RenewResponse(ApiCaller)
    \/ RenewJson(ApiCaller)
    \/ ApiAfterTokens
    \/ ApiResponse
    \/ ApiParse
    \/ ApiReturn
    \/ Tick

SpecApi == Init /\ [][NextApi]_vars

\* The operations under the scheduling the code runs in: the event loop
\* resumes every coroutine whose awaited answer has arrived, every request
\* ends (answer, error or timeout, aiohttp and async_timeout see to that) and
\* the host calls the client again at every scan interval, so a step that
\* stays possible is taken.
SpecApiLive == SpecApi /\ WF_vars(NextApi)

\* --------------------------------------- MeterReader (meter_reader.py 27-71)
\* The sequences over S of length 0..n.
SeqsUpTo(S, n) == UNION {[1..k -> S] : k \in 0..n}

MeterIds == {1, 2}

MeterNos == {1, 2}

\* The raw meter rows (MeterDto, models.py 35-50), as far as the reader uses
\* them.  superAllocationUnit is Optional[int]; unit and meterType are
\* indexes into the mapping lists, allocationUnit a key of the mapping dict.
Rows ==
    [meterId : MeterIds, meterNo : MeterNos, superAllocationUnit : {None, 1},
     unit : {0, 1}, meterType : {0}, allocationUnit : {"W"}]

\* The mapping tables (MappersConfiguration, models.py 17-20): the label
\* lists are list[Optional[str]], so a label may be None, and a list may be
\* shorter than a code; labels are positive integers here.
Tables ==
    { [meterType |-> <<1>>, measurementUnit |-> mu, allocationUnitMap |-> am] :
        mu \in {<<1, 2>>, <<1>>, <<None, 2>>}, am \in {"W" :> 1, EmptyDict} }

\* The samples of a consumption line (ConsumptionValueDto, models.py 64-67);
\* consumption is Optional[float], None when the sample has no value.
StartTimes == {1, 2}

Samples ==
    { [fromDate |-> f, toDate |-> f + 1, consumption |-> v] :
        f \in StartTimes, v \in {None, 1, 2} }

\* The consumption lines (ConsumptionLine, models.py 69-71); the reader
\* passes the samples on as they are, so lines of 0..1 samples are drawn.
Lines == [meterId : MeterIds, consumptionValues : SeqsUpTo(Samples, 1)]

\* Faulty variant of Excluded: no row is left out.
ExcludedNever(row) == FALSE

\* Line 39: `if meter.meter.superAllocationUnit is None: continue`.
Excluded(row) == row.superAllocationUnit = None

\* Lines 41-43: list indexing raises IndexError and dict indexing KeyError
\* for a code the table lacks; a None label fails the validation of
\* Meter(unit: str, meter_type: str) at line 44.
LookupRaises(table, row) ==
    \/ row.unit + 1 > Len(table.measurementUnit)
    \/ row.meterType + 1 > Len(table.meterType)
    \/ row.allocationUnit \notin DOMAIN table.allocationUnitMap
    \/ table.measurementUnit[row.unit + 1] = None
    \/ table.meterType[row.meterType + 1] = None

\* Lines 41-56: the Meter built for a row (the fields copied verbatim that
\* no claim reads are left out).
Descriptor(table, row) ==
    [meter_id |-> row.meterId,
     meter_number |-> row.meterNo,
     unit |-> table.measurementUnit[row.unit + 1],
     meter_type |-> table.meterType[row.meterType + 1],
     value_category |-> table.allocationUnitMap[row.allocationUnit],
     allocation_unit_code |-> row.allocationUnit,
     meter_type_code |-> row.meterType]

\* Lines 38-56: the loop over meters.root from row i on.  An exception
\* leaves the loop with the entries written so far.
RECURSIVE ConfigureFrom(_, _, _, _)
ConfigureFrom(cat, table, rows, i) ==
    IF i > Len(rows) THEN [meters |-> cat, raised |-> FALSE]
    ELSE IF Excluded(rows[i]) THEN ConfigureFrom(cat, table, rows, i + 1)
    ELSE IF LookupRaises(table, rows[i]) THEN [meters |-> cat, raised |-> TRUE]
    ELSE ConfigureFrom(Update(cat, rows[i].meterId :> Descriptor(table, rows[i])),
                       table, rows, i + 1)

\* Faulty variant of ConfigureMetadata: the catalog is built anew from the
\* rows of the call.
ConfigureMetadataRebuilding ==
    /\ reader.op = "none"
    /\ \E table \in Tables, rows \in SeqsUpTo(Rows, MaxRows) :
         LET r == ConfigureFrom(EmptyDict, table, rows, 1) IN
         /\ meters' = r.meters
         /\ reader' = [op |-> "configure", table |-> table, rows |-> rows,
                       lines |-> <<>>, before |-> meters, raised |-> r.raised,
                       readings |-> <<>>]
    /\ UNCHANGED <<tokenVars, clientVars, mergeVars, hostVars, legacyVars>>

\* configure_metadata (34-56).
ConfigureMetadata ==
    /\ reader.op = "none"
    /\ \E table \in Tables, rows \in SeqsUpTo(Rows, MaxRows) :
         LET r == ConfigureFrom(meters, table, rows, 1) IN
         /\ meters' = r.meters
         /\ reader' = [op |-> "configure", table |-> table, rows |-> rows,
                       lines |-> <<>>, before |-> meters, raised |-> r.raised,
                       readings |-> <<>>]
    /\ UNCHANGED <<tokenVars, clientVars, mergeVars, hostVars, legacyVars>>

\* Faulty variant of Enrich: a line whose meter is not in the catalog is
\* skipped.
EnrichSkipping(cat, lines) ==
    LET known == SelectSeq(lines, LAMBDA l : l.meterId \in DOMAIN cat) IN
    [raised |-> FALSE,
     readings |-> [i \in 1..Len(known) |->
                     [Meter |-> cat[known[i].meterId],
                      Values |-> known[i].consumptionValues]]]

\* Lines 60-68: the list comprehension; self.meters[id] raises KeyError for
\* an id the catalog lacks, and no list is returned.
Enrich(cat, lines) ==
    IF \E i \in 1..Len(lines) : lines[i].meterId \notin DOMAIN cat
    THEN [raised |-> TRUE, readings |-> <<>>]
    ELSE [raised |-> FALSE,
          readings |-> [i \in 1..Len(lines) |->
                          [Meter |-> cat[lines[i].meterId],
                           Values |-> lines[i].consumptionValues]]]

LineCounts == 0..2

\* enrich_consumption_data (59-68).
EnrichConsumptionData ==
    /\ reader.op = "none"
    /\ \E n \in LineCounts : \E lines \in [1..n -> Lines] :
         LET r == Enrich(meters, lines) IN
         reader' = [op |-> "enrich", table |-> NoTable, rows |-> <<>>,
                    lines |-> lines, before |-> meters, raised |-> r.raised,
                    readings |-> r.readings]
    /\ UNCHANGED <<meters, tokenVars, clientVars, mergeVars, hostVars, legacyVars>>

\* The caller has the outcome of the call; the reader is free for the next.
ReaderReturn ==
    /\ reader.op # "none"
    /\ reader' = NoReaderCall
    /\ UNCHANGED <<meters, tokenVars, clientVars, mergeVars, hostVars, legacyVars>>

NextReader ==
    \/ ConfigureMetadata
    \/ EnrichConsumptionData
    \/ ReaderReturn

SpecReader == Init /\ [][NextReader]_vars

\* ------------------------------------- MeterDataSet / MeterData (models.py)
\* The mapping table and the rows behind the Meter of a reading.
FullTable == [meterType |-> <<1>>, measurementUnit |-> <<1, 2>>,
              allocationUnitMap |-> "W" :> 1]

KnownMeters ==
    { Descriptor(FullTable,
                 [meterId |-> m, meterNo |-> m, superAllocationUnit |-> 1,
                  unit |-> 0, meterType |-> 0, allocationUnit |-> "W"]) :
        m \in MeterIds }

\* The readings enrich_consumption_data hands over (ConsumptionReading,
\* meter_reader.py 23-25): Values is a list[ConsumptionValueDto].
Readings == [Meter : KnownMeters, Values : SeqsUpTo(Samples, MaxSamples)]

ReadingCounts == 0..2

\* Attribute access on a model object: an attribute the class does not
\* declare raises AttributeError.
HasAttr(v, a) == a \in DOMAIN v

\* update_from_reading (15-19): for each v of reading.Values,
\* self.values[v.starttime] = v.value.  ConsumptionValueDto declares
\* fromDate, toDate and consumption, so v.starttime raises AttributeError
\* at the first sample.
RECURSIVE UpdateFromReading(_, _, _)
UpdateFromReading(values, samples, i) ==
    IF i > Len(samples) THEN [values |-> values, raised |-> FALSE]
    ELSE IF ~HasAttr(samples[i], "starttime") \/ ~HasAttr(samples[i], "value")
    THEN [values |-> values, raised |-> TRUE]
    ELSE UpdateFromReading(Update(values, samples[i].starttime :> samples[i].value),
                           samples, i + 1)

\* Faulty variant of GetOrCreate: the dataset replaced by the one meter.
GetOrCreateFresh(ds, id) == id :> EmptyDict

\* Lines 38-41: self.meters.get(meter_id), and a new MeterData stored under
\* the id when there is none (a MeterData instance is always truthy).
GetOrCreate(ds, id) == IF id \in DOMAIN ds THEN ds ELSE Update(ds, id :> EmptyDict)

\* Lines 36-42: the loop over the readings from reading i on; the key is
\* str(reading.Meter.meter_id).  An exception leaves the loop.
RECURSIVE MergeReadingsFrom(_, _, _)
MergeReadingsFrom(ds, readings, i) ==
    IF i > Len(readings) THEN [data |-> ds, raised |-> FALSE]
    ELSE LET id == ToString(readings[i].Meter.meter_id)
             created == GetOrCreate(ds, id)
             r == UpdateFromReading(created[id], readings[i].Values, 1)
             merged == Update(created, id :> r.values)
         IN IF r.raised THEN [data |-> merged, raised |-> TRUE]
            ELSE MergeReadingsFrom(merged, readings, i + 1)

\* update_from_api_result (34-42).
UpdateFromApiResult ==
    /\ merge.op = "none"
    /\ \E n \in ReadingCounts : \E readings \in [1..n -> Readings] :
         LET r == MergeReadingsFrom(data, readings, 1) IN
         /\ data' = r.data
         /\ merge' = [op |-> "merge", readings |-> readings, before |-> data,
                      raised |-> r.raised]
    /\ UNCHANGED <<tokenVars, clientVars, readerVars, hostVars, legacyVars>>

\* The caller has the outcome of the merge.
MergeReturn ==
    /\ merge.op # "none"
    /\ merge' = NoMergeCall
    /\ UNCHANGED <<data, tokenVars, clientVars, readerVars, hostVars, legacyVars>>

NextMerge ==
    \/ UpdateFromApiResult
    \/ MergeReturn

SpecMerge == Init /\ [][NextMerge]_vars

\* --------------------------- BrunataClient.get_consumption (client.py 20-52)
\* is_configured (meter_reader.py 31-32): len(self.meters) > 0.
IsConfigured(cat) == DOMAIN cat # {}

\* The metadata the metering API answers with: a mapping table with or
\* without the label of the allocation unit, and the meter rows of the
\* account (none, or one row, with or without a superAllocationUnit).
MetadataTables == {FullTable, [FullTable EXCEPT !.allocationUnitMap = EmptyDict]}

MetadataRows ==
    {<<>>} \cup
    { <<[meterId |-> m, meterNo |-> m, superAllocationUnit |-> s, unit |-> 0,
         meterType |-> 0, allocationUnit |-> "W"]>> :
        m \in MeterIds, s \in {None, 1} }

\* Lines 46-48: get_consumption is called; an empty catalog sends it through
\* connect() and _update_metadata first, whose first await is
\* get_mapping_configuration.
ClientCall ==
    /\ client.pc = "idle"
    /\ api.pc = "idle"
    /\ pc[ApiCaller] = "idle"
    /\ client' = [client EXCEPT
                    !.pc = IF IsConfigured(meters) THEN "get_consumption"
                           ELSE "get_mapping_configuration"]
    /\ UNCHANGED <<tokenVars, clientVars, readerVars, mergeVars, coordinator, cycle, sensor, legacyVars>>

\* Lines 24, 28, 32 and 48: the operation the call has come to is awaited.
ClientApiCall ==
    /\ client.pc \in Ops
    /\ ApiCall(client.pc)

\* The call with the outcome of the operation it awaited: an error Result is
\* remembered (it is only logged, lines 25-34 and 49-50).
ClientWith(o) ==
    [client EXCEPT !.errors = IF o.out = "error" THEN @ \cup {o.op} ELSE @,
                   !.auth_failed = @ \/ o.auth \in {"false", "raised"}]

\* An exception that left the awaited operation leaves _update_metadata,
\* connect and get_consumption: none of them has a try.
ClientOpThrew ==
    /\ client.pc \in Ops
    /\ api.pc = "returned"
    /\ api.out = "thrown"
    /\ api' = NoApi
    /\ client' = [ClientWith(api) EXCEPT !.pc = "returned", !.out = "thrown"]
    /\ UNCHANGED <<tokenVars, readerVars, mergeVars, coordinator, cycle, sensor, legacyVars>>

\* Lines 24-32: get_mapping_configuration or get_allocation_units has
\* returned a Result, error or not: the next operation is awaited.
ClientNextOp ==
    /\ client.pc \in {"get_mapping_configuration", "get_allocation_units"}
    /\ api.pc = "returned"
    /\ api.out # "thrown"
    /\ api' = NoApi
    /\ client' = [ClientWith(api) EXCEPT
                    !.pc = IF client.pc = "get_mapping_configuration"
                           THEN "get_allocation_units" ELSE "get_meters"]
    /\ UNCHANGED <<tokenVars, readerVars, mergeVars, coordinator, cycle, sensor, legacyVars>>

\* Lines 32-36 and 46-48: get_meters has returned and configure_metadata is
\* called with the three `.value`s.  The value of an error Result is the
\* exception: `meters.root` raises AttributeError on it, and so does
\* `mappers_config.measurementUnit` at the first row that is not excluded
\* (as a lookup in a table without entries does in ConfigureFrom).
\* allocation_units is not read.  Then get_consumption is awaited.
ClientConfigure ==
    /\ client.pc = "get_meters"
    /\ api.pc = "returned"
    /\ api.out # "thrown"
    /\ api' = NoApi
    /\ LET c == ClientWith(api) IN
       IF "get_meters" \in c.errors
       THEN /\ client' = [c EXCEPT !.pc = "returned", !.out = "thrown"]
            /\ UNCHANGED meters
       ELSE \E table \in MetadataTables, rows \in MetadataRows :
              LET r == ConfigureFrom(
                         meters,
                         IF "get_mapping_configuration" \in c.errors
                         THEN NoTable ELSE table,
                         rows, 1) IN
              /\ meters' = r.meters
              /\ client' = IF r.raised
                           THEN [c EXCEPT !.pc = "returned", !.out = "thrown"]
                           ELSE [c EXCEPT !.pc = "get_consumption",
                                          !.resolved = TRUE]
    /\ UNCHANGED <<tokenVars, reader, mergeVars, coordinator, cycle, sensor, legacyVars>>

\* Lines 48-52: get_consumption has returned and enrich_consumption_data is
\* called with its `.value`: on an error Result that is the exception, and
\* `.consumptionLines` raises AttributeError.
ClientEnrich ==
    /\ client.pc = "get_consumption"
    /\ api.pc = "returned"
    /\ api.out # "thrown"
    /\ api' = NoApi
    /\ LET c == ClientWith(api) IN
       IF "get_consumption" \in c.errors
       THEN client' = [c EXCEPT !.pc = "returned", !.out = "thrown"]
       ELSE \E lines \in SeqsUpTo(Lines, 1) :
              LET r == Enrich(meters, lines) IN
              client' = [c EXCEPT !.pc = "returned",
                                  !.out = IF r.raised THEN "thrown" ELSE "value",
                                  !.readings = r.readings]
    /\ UNCHANGED <<tokenVars, readerVars, mergeVars, coordinator, cycle, sensor, legacyVars>>

\* The caller has the outcome of get_consumption.
ClientReturn ==
    /\ client.pc = "returned"
    /\ client' = [NoClientCall EXCEPT !.resolved = client.resolved]
    /\ UNCHANGED <<tokenVars, clientVars, readerVars, mergeVars, coordinator, cycle, sensor, legacyVars>>

NextClient ==
    \/ ClientCall
    \/ ClientApiCall
    \/ ApiGetTokens
    \/ CodeChallenge(ApiCaller)
    \/ AuthorizeResponse(ApiCaller)
    \/ AuthorizeText(ApiCaller)
    \/ SelfAssertedResponse(ApiCaller)
    \/ ConfirmedResponse(ApiCaller)
    \/ TokenResponse(ApiCaller)
    \/ TokenJson(ApiCaller)
    \/ RenewResponse(ApiCaller)
    \/ RenewJson(ApiCaller)
    \/ ApiAfterTokens
    \/ ApiResponse
    \/ ApiParse
    \/ ClientOpThrew
    \/ ClientNextOp
    \/ ClientConfigure
    \/ ClientEnrich
    \/ ClientReturn
    \/ Tick

SpecClient == Init /\ [][NextClient]_vars

\* ------------------- the update cycle (Coordinator.py 19-61, __init__.py 51-55)
\* The number of queries of a coordinator: one for each distinct pair
\* (meter_type, value_category) of the sensors (lines 36-43).
QueryCounts == 0..2

\* The readings one fetch hands over: at most one reading, of at most one
\* sample, which has a value.
FetchedReadings ==
    SeqsUpTo([Meter : KnownMeters,
              Values : SeqsUpTo({s \in Samples : s.consumption # None}, 1)], 1)

\* Line 54, `await self.api.get_consumption(start, end, consumption, unit,
\* Interval.DAY)`: the call raises or returns a list of readings
\* (client.py 44-52, see ClientOpThrew, ClientConfigure and ClientEnrich for
\* the exceptions).  The `for consumption, unit in self.queries` of line 53
\* unpacks each query, a dict, into its two keys, so the call passes the
\* strings "consumption" and "allocation_unit", and once authenticated
\* `_type.name` (api2.py 359) raises AttributeError; the lists the call
\* returns for a member of Consumption are drawn next to that outcome, so
\* that the lines after 54 are covered.
FetchOutcomes ==
    {[raised |-> TRUE, readings |-> <<>>]} \cup
    {[raised |-> FALSE, readings |-> r] : r \in FetchedReadings}

\* Faulty variant of WorkingSet: every cycle starts from a new dataset.
WorkingSetFresh(d) == [merged |-> EmptyDict, shared |-> FALSE]

\* Line 52, `merged = self.data or MeterDataSet()`: a MeterDataSet is always
\* truthy, so `merged` is the very object self.data is bound to, and a new
\* dataset only while self.data is None.
WorkingSet(d) ==
    IF ~d.bound THEN [merged |-> EmptyDict, shared |-> FALSE]
    ELSE [merged |-> d.meters, shared |-> TRUE]

\* async_setup_entry (__init__.py 51-53) constructs the coordinator for the
\* sensors found.  DataUpdateCoordinator.__init__ is the host's: it either
\* binds self.data to None or leaves the class attribute of line 21, an
\* empty MeterDataSet, in sight.
Setup ==
    /\ coordinator.pc = "unset"
    /\ \E n \in QueryCounts, d \in {NoData, DataSet(EmptyDict)} :
         coordinator' = [pc |-> "idle", data |-> d,
                         last_update_success |-> PyBool(TRUE), queries |-> n]
    /\ UNCHANGED <<tokenVars, clientVars, readerVars, mergeVars, client, cycle, sensor, legacyVars>>

\* Line 58 and the host's _async_refresh with the cycle `c` that has ended.
\* On a returned dataset self.data is bound to it; last_update_success is
\* the `end` line 58 assigned, which the host leaves (it sets the flag to
\* True only when it finds it falsy).  On UpdateFailed the host sets
\* last_update_success to False, and self.data stays bound to what it was
\* bound to, with whatever was merged into that object.
AfterCycle(c) ==
    [coordinator EXCEPT
       !.pc = "idle",
       !.last_update_success = IF c.out = "updated" THEN DateTime(c.end)
                               ELSE PyBool(FALSE),
       !.data = IF c.out = "updated" \/ c.shared THEN DataSet(c.merged) ELSE @]

\* The cycle `c` at line 54 for query c.i, in place-merged into the dataset
\* the host sees when `merged` is that object.
Awaiting(c) ==
    [coordinator EXCEPT !.pc = "running",
                        !.data = IF c.shared THEN DataSet(c.merged) ELSE @]

\* Lines 49-50: end = datetime.today(), start = self.last_update_success or
\* (end - timedelta(days=7)).
WindowStart(last_update_success, end) ==
    IF IsTruthy(last_update_success) THEN last_update_success
    ELSE DateTime(end - Week)

\* What the fetch of a window that begins at `start` can be answered with:
\* `start_date.isoformat()` (api2.py 347) raises AttributeError on a bool.
WindowOutcomes(start) ==
    IF start.type = "bool" THEN {o \in FetchOutcomes : o.raised}
    ELSE FetchOutcomes

\* Lines 48-54: a cycle begins and runs to the await of its first query, or,
\* without queries, to `return merged` (lines 58-59).
CycleStart ==
    /\ coordinator.pc = "idle"
    /\ \E plan \in [1..coordinator.queries ->
                      WindowOutcomes(WindowStart(coordinator.last_update_success, now))] :
         LET w == WorkingSet(coordinator.data)
             c == [start |-> WindowStart(coordinator.last_update_success, now),
                   end |-> now,
                   i |-> 1, merged |-> w.merged, shared |-> w.shared,
                   before |-> coordinator.data, plan |-> plan,
                   out |-> IF coordinator.queries = 0 THEN "updated" ELSE "none"]
         IN /\ cycle' = c
            /\ coordinator' = IF c.out = "updated" THEN AfterCycle(c)
                              ELSE Awaiting(c)
    /\ UNCHANGED <<tokenVars, clientVars, readerVars, mergeVars, client, sensor, legacyVars>>

\* Lines 54-61: the awaited fetch of query i ends.  An exception it raised,
\* or one update_from_api_result raises (line 56), is caught at line 60 and
\* UpdateFailed leaves the cycle; otherwise the readings are merged and the
\* next query is awaited, or after the last one the dataset is returned.
CycleFetched ==
    /\ coordinator.pc = "running"
    /\ LET o == cycle.plan[cycle.i]
           r == MergeReadingsFrom(cycle.merged, o.readings, 1)
           c == IF o.raised THEN [cycle EXCEPT !.out = "failed"]
                ELSE IF r.raised
                THEN [cycle EXCEPT !.merged = r.data, !.out = "failed"]
                ELSE [cycle EXCEPT !.merged = r.data, !.i = @ + 1,
                                   !.out = IF cycle.i = coordinator.queries
                                           THEN "updated" ELSE "none"]
       IN /\ cycle' = c
          /\ coordinator' = IF c.out = "none" THEN Awaiting(c) ELSE AfterCycle(c)
    /\ UNCHANGED <<tokenVars, clientVars, readerVars, mergeVars, client, sensor, legacyVars>>

NextCycle ==
    \/ Setup
    \/ CycleStart
    \/ CycleFetched
    \/ Tick

SpecCycle == Init /\ [][NextCycle]_vars

\* ------------------------------ StatisticsSensor (sensor.py 65-116)
\* The start times of the samples of a series and of the host's last
\* statistic, and the values of the samples.
SampleTimes == {1, 2, 3}

SampleValues == {1, 2}

\* MeterData.values (models.py 13): start time -> value.
SeriesValues == UNION {[ks -> SampleValues] : ks \in SUBSET SampleTimes}

\* The row _get_last_stat returns (lines 80-88): None, or the start and the
\* sum of the entity's last statistic.
LastStats == {NoStat} \cup [known : {TRUE}, start : {0, 1, 2}, sum : {0, 5}]

\* Line 75: the samples whose start time is after the cutoff.
NewData(values, data_cutoff) ==
    [k \in {t \in DOMAIN values : t > data_cutoff} |-> values[k]]

\* sorted(d) of a dict d: the list of its keys, datetime objects, in
\* ascending order.
RECURSIVE SortedKeys(_)
SortedKeys(ks) ==
    IF ks = {} THEN <<>>
    ELSE LET least == CHOOSE k \in ks : \A j \in ks : k <= j
         IN <<[type |-> "datetime", v |-> least]>> \o SortedKeys(ks \ {least})

\* `for (time, value) in ...` unpacks each element into two names: a tuple
\* of two items unpacks, a datetime raises TypeError.
Unpacks(x) == x.type = "tuple" /\ Len(x.v) = 2

\* Lines 97-105: the loop over sorted_data from element i on.  sorted_data
\* is sorted(new_data), the keys of the dict, so the first element fails to
\* unpack with TypeError.
RECURSIVE InsertFrom(_, _, _, _)
InsertFrom(statistics, total, sorted_data, i) ==
    IF i > Len(sorted_data) THEN [statistics |-> statistics, raised |-> ""]
    ELSE IF ~Unpacks(sorted_data[i])
    THEN [statistics |-> statistics, raised |-> "TypeError"]
    ELSE InsertFrom(Append(statistics,
                           [start |-> sorted_data[i].v[1],
                            sum |-> total + sorted_data[i].v[2]]),
                    total + sorted_data[i].v[2], sorted_data, i + 1)

\* _insert_statistics (90-116): the records imported, or the exception.
InsertStatistics(new_data, last_stat) ==
    InsertFrom(<<>>, IF last_stat.known THEN last_stat.sum ELSE 0,
               SortedKeys(DOMAIN new_data), 1)

\* _update_data (69-77).  Line 71: last_stat["start"] raises TypeError when
\* last_stat is None; datetime.fromtimestamp(ts, UTC) is an aware datetime,
\* which pytz's localize refuses with ValueError (pytz is the host's
\* library: the outcome in which it hands the cutoff back is kept next to
\* it).  Line 72-73: the call returns when the dataset has no meter under
\* the entity id.  Then lines 75-77.
UpdateData ==
    /\ sensor.op = "none"
    /\ \E last_stat \in LastStats, found \in BOOLEAN, values \in SeriesValues,
          localized \in BOOLEAN :
         LET r == InsertStatistics(NewData(values, last_stat.start), last_stat)
             call == [op |-> "update", last_stat |-> last_stat, found |-> found,
                      values |-> IF found THEN values ELSE EmptyDict,
                      raised |-> "", imported |-> <<>>]
         IN sensor' =
              IF ~last_stat.known THEN [call EXCEPT !.raised = "TypeError"]
              ELSE IF ~localized THEN [call EXCEPT !.raised = "ValueError"]
              ELSE IF ~found THEN call
              ELSE [call EXCEPT !.raised = r.raised, !.imported = r.statistics]
    /\ UNCHANGED <<tokenVars, clientVars, readerVars, mergeVars, client,
                   coordinator, cycle, legacyVars>>

\* The task of line 67 has ended.
SensorReturn ==
    /\ sensor.op # "none"
    /\ sensor' = NoSensorCall
    /\ UNCHANGED <<tokenVars, clientVars, readerVars, mergeVars, client,
                   coordinator, cycle, legacyVars>>

NextSensor ==
    \/ UpdateData
    \/ SensorReturn

SpecSensor == Init /\ [][NextSensor]_vars

\* ------------------ the legacy client's Meter (libs/brunata/api.py 454-488)
\* The reading dates of the feed (ISO strings, parsed with fromisoformat;
\* the instants are ordered as the integers are).
ReadingDates == {1, 2, 3}

\* The `reading` objects of the meters feed (line 287): value and
\* readingDate may be null.
ReadingJsons == [value : {None, 0, 1}, readingDate : {None} \cup ReadingDates,
                 readingId : {1, 2}]

\* Line 471: float(reading_json["value"]) if reading_json["value"] else
\* None; a value of 0 is falsy as null is.
ReadingValue(json) == IF Truthy(json.value) THEN json.value ELSE None

\* Line 472: the parsed date, None for a null (or empty) readingDate.
ReadingDate(json) == IF Truthy(json.readingDate) THEN json.readingDate ELSE None

\* Faulty variant of AddReadingTo: a reading whose date is stored replaces
\* the stored one.
AddReadingOverwriting(m, json) ==
    LET date == ReadingDate(json)
        reading == [id |-> json.readingId, value |-> ReadingValue(json),
                    date |-> date]
    IN IF date # None
       THEN [readings |-> Update(m.readings, date :> reading),
             latest_reading |->
                IF m.latest_reading = NoReading \/ m.latest_reading.date <= date
                THEN reading ELSE m.latest_reading,
             returned |-> TRUE]
       ELSE [readings |-> m.readings, latest_reading |-> m.latest_reading,
             returned |-> FALSE]

\* add_reading (470-482) on a meter with the given _readings and
\* latest_reading.
AddReadingTo(m, json) ==
    LET date == ReadingDate(json)
        reading == [id |-> json.readingId, value |-> ReadingValue(json),
                    date |-> date]
    IN IF date # None /\ date \notin DOMAIN m.readings
       THEN [readings |-> Update(m.readings, date :> reading),
             latest_reading |->
                IF m.latest_reading = NoReading \/ m.latest_reading.date < date
                THEN reading ELSE m.latest_reading,
             returned |-> TRUE]
       ELSE [readings |-> m.readings, latest_reading |-> m.latest_reading,
             returned |-> FALSE]

\* meter.add_reading(json_reading) (line 295).
AddReading ==
    /\ legacy.op = "none"
    /\ \E json \in ReadingJsons :
         LET r == AddReadingTo(legacy, json) IN
         legacy' = [readings |-> r.readings, latest_reading |-> r.latest_reading,
                    op |-> "add_reading", json |-> json,
                    before |-> [readings |-> legacy.readings,
                                latest_reading |-> legacy.latest_reading],
                    returned |-> r.returned]
    /\ UNCHANGED <<tokenVars, clientVars, readerVars, mergeVars, hostVars>>

\* The caller has the result of add_reading (`updated |= ...`).
AddReadingReturn ==
    /\ legacy.op # "none"
    /\ legacy' = [NewMeter EXCEPT !.readings = legacy.readings,
                                  !.latest_reading = legacy.latest_reading]
    /\ UNCHANGED <<tokenVars, clientVars, readerVars, mergeVars, hostVars>>

NextLegacy ==
    \/ AddReading
    \/ AddReadingReturn

SpecLegacy == Init /\ [][NextLegacy]_vars

\* ========================================================== properties
\* The validity the Token Store is specified to report: a token is valid
\* strictly before its expiry and never in an empty store.
SpecAccessValid(d, t) == DOMAIN d # {} /\ t < Get(d, "expires_on")

SpecRefreshValid(d, t) == DOMAIN d # {} /\ t < Get(d, "refresh_token_expires_on")

\* A TokenSet with every field populated.
FullTokenSet(d) ==
    {"access_token", "token_type", "refresh_token", "expires_on",
     "refresh_token_expires_on"} \subseteq DOMAIN d

\* Caller c enters _get_tokens in this step / its call ends in this step.
Calls(c) == pc[c] = "idle" /\ pc'[c] # "idle"

Ends(c) == pc[c] # "done" /\ pc'[c] = "done"

InB2C == {"challenge", "authorize_wait", "authorize_text", "selfasserted_wait",
          "confirmed_wait", "token_wait", "token_json"}

\* C1: two callers that invoke _get_tokens concurrently on an empty store
\* start one B2C flow between them: never are two B2C flows running at once.
C1_SingleB2CFlow == Cardinality({c \in Callers : pc[c] \in InB2C}) <= 1

\* C2: two callers racing _get_tokens on an expired access token never have
\* two refresh_token grant requests in flight at the same time.
C2_SingleRefreshInFlight ==
    Cardinality({c \in Callers : pc[c] = "renew_wait"}) <= 1

\* C3: a call made while the refresh token is not valid (empty store, or
\* now >= refresh_token_expires_on) runs the B2C flow and sends no
\* refresh_token grant request.
C3_InvalidRefreshRunsB2C ==
    [][\A c \in Callers :
         ( /\ Calls(c)
           /\ \/ DOMAIN tokens = {}
              \/ FullTokenSet(tokens) /\ ~SpecRefreshValid(tokens, now) )
         => (path'[c] = "b2c" /\ sent'[c] = <<>>)]_vars

\* C4: a call made while both the refresh token and the access token are
\* valid is a no-op: it sends no HTTP request, leaves the Token Store as it
\* was and returns success.
C4_ValidTokensNoOp ==
    [][\A c \in Callers :
         (Calls(c) /\ SpecRefreshValid(tokens, now) /\ SpecAccessValid(tokens, now))
         => ( /\ pc'[c] = "done"
              /\ sent'[c] = <<>>
              /\ tokens' = tokens
              /\ ret'[c].kind = "true" )]_vars

\* C4 witness: a call has returned success over the no-op branch, with no
\* request sent, while both tokens are still valid.
C4_Witness ==
    \E c \in Callers :
        /\ pc[c] = "done" /\ path[c] = "noop" /\ ret[c].kind = "true"
        /\ sent[c] = <<>>
        /\ FullTokenSet(tokens)
        /\ SpecRefreshValid(tokens, now) /\ SpecAccessValid(tokens, now)

\* C5: a call made while the refresh token is valid and the access token is
\* not (now >= expires_on) sends exactly one token request with
\* grant_type=refresh_token carrying the stored refresh token, and starts no
\* B2C flow.
C5_ExpiredAccessRefreshes ==
    [][\A c \in Callers :
         ( /\ Calls(c) /\ FullTokenSet(tokens)
           /\ SpecRefreshValid(tokens, now) /\ ~SpecAccessValid(tokens, now) )
         => ( /\ path'[c] = "renew"
              /\ sent'[c] = <<Request("token", "refresh_token",
                                      tokens["refresh_token"])>> )]_vars

\* C6: for every populated TokenSet and every time, the access-token check
\* is true exactly when now < expires_on (false at now = expires_on).
C6_AccessValidStrictlyBefore ==
    FullTokenSet(tokens)
    => (IsTokenValid(tokens, "access_token", now) <=> now < tokens["expires_on"])

\* C7: the refresh-token check _get_tokens makes is false when the store is
\* empty or now >= refresh_token_expires_on, and true otherwise.
C7_RefreshValidity ==
    /\ DOMAIN tokens = {} => ~IsTokenValid(tokens, "refresh_token", now)
    /\ FullTokenSet(tokens)
       => ( IsTokenValid(tokens, "refresh_token", now)
            <=> now < tokens["refresh_token_expires_on"] )

\* C8: when the token payload a call obtained (from the B2C flow or from the
\* refresh request) has no access token, the Token Store is empty when the
\* call returns and the call returns false.
C8_NoAccessTokenClearsStore ==
    [][\A c \in Callers :
         ( /\ Ends(c) /\ last'.caller = c /\ last'.got
           /\ ~Truthy(Get(last'.payload, "access_token")) )
         => (tokens' = EmptyDict /\ ret'[c].kind = "false")]_vars

\* C8 witness: a refresh on a populated store came back without an access
\* token; the call has returned false and the store is empty.
C8_Witness ==
    \E c \in Callers :
        /\ pc[c] = "done" /\ path[c] = "renew" /\ Len(sent[c]) = 1
        /\ last.caller = c /\ last.got
        /\ DOMAIN last.payload # {}
        /\ ~Truthy(Get(last.payload, "access_token"))
        /\ ret[c].kind = "false" /\ tokens = EmptyDict

\* C9: a failed authentication or refresh attempt leaves the Token Store
\* empty.  Stated for the refresh attempt: when a call that sent the
\* refresh_token grant request fails (the request rejected, timed out or
\* failed in transport), the store is empty at the end of the call.
C9_FailedRefreshClearsStore ==
    [][\A c \in Callers :
         ( /\ Ends(c) /\ path'[c] = "renew" /\ sent'[c] # <<>>
           /\ FullTokenSet(tokens)
           /\ ret'[c].kind \in {"false", "raised"} )
         => tokens' = EmptyDict]_vars

\* C10: when a successful token response carries the stored refresh token,
\* refresh_token_expires_on keeps its value; when it carries another one,
\* refresh_token_expires_on becomes now + the refresh_token_expires_in the
\* response declares.
C10_RefreshRotation ==
    [][\A c \in Callers :
         ( /\ Ends(c) /\ last'.caller = c /\ last'.got
           /\ Truthy(Get(last'.payload, "access_token"))
           /\ "refresh_token" \in DOMAIN last'.payload )
         => ( /\ last'.payload["refresh_token"] = Get(tokens, "refresh_token")
                 => Get(tokens', "refresh_token_expires_on")
                      = Get(tokens, "refresh_token_expires_on")
              /\ ( /\ last'.payload["refresh_token"] # Get(tokens, "refresh_token")
                   /\ "refresh_token_expires_in" \in DOMAIN last'.payload )
                 => Get(tokens', "refresh_token_expires_on")
                      = now + last'.payload["refresh_token_expires_in"] )]_vars

\* C10 witness: a refresh answered with the stored refresh token and a
\* lifetime that would have moved the expiry; the expiry in the store is not
\* the recomputed one, and the access token is the new one.
C10_Witness ==
    \E c \in Callers :
        /\ pc[c] = "done" /\ path[c] = "renew" /\ ret[c].kind = "true"
        /\ last.caller = c /\ last.got
        /\ FullTokenSet(tokens)
        /\ Get(last.payload, "refresh_token") = tokens["refresh_token"]
        /\ "refresh_token_expires_in" \in DOMAIN last.payload
        /\ \A t \in 0..MaxTime :
             tokens["refresh_token_expires_on"]
               # t + last.payload["refresh_token_expires_in"]

\* C11: the Token Store is either empty or holds all of access_token,
\* token_type, refresh_token, expires_on and refresh_token_expires_on.
C11_StoreEmptyOrFull == DOMAIN tokens = {} \/ FullTokenSet(tokens)

\* The exceptions the steps of _b2c_auth raise (authorize, SelfAsserted,
\* confirmed, token exchange).
B2CStepExceptions ==
    {"ClientError", "AttributeError", "IndexError", "AssertionError", "KeyError",
     "ContentTypeError"}

\* C12: a call that ran the B2C flow never ends with an exception raised by
\* one of the flow's steps: a failed step yields an empty result instead.
C12_B2CNeverRaises ==
    \A c \in Callers :
        (pc[c] = "done" /\ path[c] = "b2c" /\ sent[c] # <<>>)
        => ~(ret[c].kind = "raised" /\ ret[c].exc \in B2CStepExceptions)

\* C13: when the body of the /authorize response has no SETTINGS block (the
\* call ends at that point without an exception), no request is sent after
\* the /authorize request, the store is empty and the call returns false.
C13_NoSettingsStopsFlow ==
    [][\A c \in Callers :
         (pc[c] = "authorize_text" /\ Ends(c) /\ ret'[c].kind # "raised")
         => ( /\ sent'[c] = <<AuthorizeRequest(Challenge(CodeVerifier(c)))>>
              /\ tokens' = EmptyDict
              /\ ret'[c].kind = "false" )]_vars

\* C13 witness: a B2C flow that ended after the /authorize request alone,
\* with the empty result, and returned false.
C13_Witness ==
    \E c \in Callers :
        /\ pc[c] = "done" /\ path[c] = "b2c"
        /\ sent[c] = <<AuthorizeRequest(Challenge(CodeVerifier(c)))>>
        /\ last = [caller |-> c, got |-> TRUE, payload |-> EmptyDict]
        /\ ret[c].kind = "false" /\ tokens = EmptyDict

\* C14: no operation of the API client ends with an exception: every
\* failure is returned as an error Result.
C14_NoOperationThrows == api.out # "thrown"

\* C15: when _get_tokens returned False, the operation has sent no request
\* to the metering API and returns an error Result.
C15_AuthFailureShortCircuits ==
    api.auth = "false"
    => (api.requests = 0 /\ api.pc = "returned" /\ api.out = "error")

\* C15 witness: get_consumption has returned an error Result, without a
\* request, after a refresh that came back without an access token.
C15_Witness ==
    /\ api.op = "get_consumption" /\ api.pc = "returned"
    /\ api.auth = "false" /\ api.requests = 0 /\ api.out = "error"
    /\ last.caller = ApiCaller /\ last.got /\ DOMAIN last.payload # {}

\* C16: the cookies the identity provider sets during the B2C steps never
\* appear in the cookie jar of the main API session.
C16_AuthCookiesIsolated == CsrfCookie \notin cookie_jar

\* The rows of the last configure_metadata call that have a
\* superAllocationUnit, and the last of them with the meter id m.
NonNullRows == {i \in 1..Len(reader.rows) : reader.rows[i].superAllocationUnit # None}

LastRowOf(m) ==
    reader.rows[CHOOSE i \in NonNullRows :
                    /\ reader.rows[i].meterId = m
                    /\ \A j \in NonNullRows : reader.rows[j].meterId = m => j <= i]

\* What C17 says of the catalog after a resolution: an id whose rows all
\* have a null superAllocationUnit is not put into the catalog; every other
\* row has one descriptor, under its meter id, built from that row (the last
\* one, when several rows carry the id); and of two rows with one meterNo,
\* one of them with a null superAllocationUnit, one descriptor results.
CatalogMatchesRows ==
    /\ \A m \in DOMAIN meters :
         m \in DOMAIN reader.before
         \/ \E i \in NonNullRows : reader.rows[i].meterId = m
    /\ \A i \in NonNullRows :
         LET m == reader.rows[i].meterId IN
         /\ m \in DOMAIN meters
         /\ meters[m] = Descriptor(reader.table, LastRowOf(m))
    /\ ( /\ reader.before = EmptyDict
         /\ Len(reader.rows) = 2
         /\ reader.rows[1].meterNo = reader.rows[2].meterNo
         /\ Cardinality(NonNullRows) = 1 )
       => Cardinality(DOMAIN meters) = 1

C18_OneReadingPerLine ==
    reader.op = "enrich"
    => IF \E i \in 1..Len(reader.lines) : reader.lines[i].meterId \notin DOMAIN meters
       THEN reader.raised /\ reader.readings = <<>>
       ELSE /\ ~reader.raised
            /\ Len(reader.readings) = Len(reader.lines)
            /\ \A i \in 1..Len(reader.lines) :
                 /\ reader.readings[i].Meter = meters[reader.lines[i].meterId]
                 /\ reader.readings[i].Values = reader.lines[i].consumptionValues

\* C18 witness: two lines, the first for a meter of the catalog and the
\* second for one it lacks: the call has failed and returned nothing.
C18_Witness ==
    /\ reader.op = "enrich" /\ Len(reader.lines) = 2
    /\ reader.lines[1].meterId \in DOMAIN meters
    /\ reader.lines[2].meterId \notin DOMAIN meters
    /\ reader.raised /\ reader.readings = <<>>

\* The samples the last merge carried for the meter id, in the order of
\* the readings, and the value the last of them gives a start-time.
RECURSIVE SamplesOf(_, _)
SamplesOf(id, i) ==
    IF i > Len(merge.readings) THEN <<>>
    ELSE (IF ToString(merge.readings[i].Meter.meter_id) = id
          THEN merge.readings[i].Values ELSE <<>>) \o SamplesOf(id, i + 1)

LastValueAt(samples, t) ==
    samples[CHOOSE i \in 1..Len(samples) :
                /\ samples[i].fromDate = t
                /\ \A j \in 1..Len(samples) : samples[j].fromDate = t => j <= i].consumption

\* The series C19 specifies: the series before the merges, with the samples
\* of the concatenation upserted once by start-time.
MergedOnce(base, samples) ==
    LET ts == {samples[i].fromDate : i \in 1..Len(samples)} IN
    [t \in DOMAIN base \cup ts |->
        IF t \in ts THEN LastValueAt(samples, t) ELSE base[t]]

SeriesOf(ds, id) == IF id \in DOMAIN ds THEN ds[id] ELSE EmptyDict

ReadingMeters ==
    {ToString(merge.readings[i].Meter.meter_id) : i \in 1..Len(merge.readings)}

\* C19: after a sequence of readings was merged, the series of each of
\* their meters has one entry per distinct start-time and equals the series
\* obtained by merging the concatenation of all their samples once (so that
\* merging a reading twice gives what merging it once gives).
C19_MergeEqualsMergeOfUnion ==
    merge.op = "merge"
    => \A id \in ReadingMeters :
         /\ id \in DOMAIN data
         /\ data[id] = MergedOnce(SeriesOf(merge.before, id), SamplesOf(id, 1))

\* The (meter id, start-time) pairs that occur in the merged readings.
MergedKeys ==
    UNION { { <<ToString(merge.readings[i].Meter.meter_id),
                merge.readings[i].Values[j].fromDate>> :
                j \in 1..Len(merge.readings[i].Values) } :
            i \in 1..Len(merge.readings) }

C30_MissingCsrfReturnsEmpty ==
    [][\A c \in Callers :
         (pc[c] = "authorize_wait" /\ Ends(c) /\ ret'[c].exc # "ClientError")
         => (ret'[c].kind = "false" /\ sent'[c] = sent[c])]_vars

\* The stored refresh token is dead: its expiry has passed, and so has the
\* access token's, so that the coming calls have to authenticate.
DeadRefreshToken ==
    /\ FullTokenSet(tokens)
    /\ tokens["refresh_token_expires_on"] <= now
    /\ tokens["expires_on"] < now

\* C28: once the stored refresh token has expired, the calls that follow
\* lead to a full B2C authentication: the store does not stay with the dead
\* refresh token for ever without a B2C flow being run.  (A provider that
\* answers a refresh request for the token with 2xx has not rejected it:
\* that ends the case as well.)
C28_DeadRefreshLeadsToB2C ==
    DeadRefreshToken ~> \/ ~DeadRefreshToken
                        \/ pc[ApiCaller] \in InB2C
                        \/ pc[ApiCaller] = "renew_json"

\* C29: once an operation of a client call has failed to authenticate, no
\* authentication (B2C flow or refresh request) is started again within that
\* call, the three operations of the on-demand metadata resolution included.
C29_NoAuthAfterAuthFailure ==
    client.auth_failed => pc[ApiCaller] \in {"idle", "done"} /\ path[ApiCaller] \in {"none", "noop"}

\* Every meter of dataset d is a meter of dataset e, with every start-time
\* key of its series.
DatasetKeeps(d, e) ==
    \A m \in DOMAIN d :
        m \in DOMAIN e /\ DOMAIN d[m] \subseteq DOMAIN e[m]

\* C21: the dataset the coordinator holds is only ever merged into: across
\* the steps of the update cycles self.data stays bound to a dataset once it
\* is, and no meter and no (meter id, start-time) key of it goes away.
C21_DatasetNeverShrinks ==
    [][/\ coordinator.data.bound => coordinator'.data.bound
       /\ DatasetKeeps(coordinator.data.meters, coordinator'.data.meters)]_vars

\* A cycle over a dataset that held a meter has returned, and the dataset
\* holds more meters than before.
C21_Witness ==
    /\ cycle.out = "updated"
    /\ DOMAIN cycle.before.meters # {}
    /\ DOMAIN coordinator.data.meters # DOMAIN cycle.before.meters

\* The dataset after the readings of the queries i.. of the given plan have
\* been merged into ds, one query after the other.
RECURSIVE MergedPlan(_, _, _)
MergedPlan(ds, plan, i) ==
    IF i > Len(plan) THEN ds
    ELSE MergedPlan(MergeReadingsFrom(ds, plan[i].readings, 1).data, plan, i + 1)

\* C22: while an update cycle is suspended at an await, the dataset a sensor
\* reads from the coordinator (sensor.py line 70) is the dataset as it was
\* before the cycle's merges or as it is after all of them.
C22_ReaderSeesWholeCycles ==
    coordinator.pc = "running"
    => coordinator.data.meters
         \in {cycle.before.meters, MergedPlan(cycle.before.meters, cycle.plan, 1)}

\* C23: a cycle that failed (a fetch or a merge raised) has been reported as
\* failed, and the dataset the host sees is what it was before the cycle.
C23_FailedCycleLeavesDataset ==
    cycle.out = "failed"
    => coordinator.last_update_success = PyBool(FALSE)
       /\ coordinator.data = cycle.before

\* The meters of the readings fetched for query q of the cycle are in the
\* dataset (update_from_api_result creates the meter of a reading before it
\* stores its samples).
QueryMerged(q) ==
    \A k \in 1..Len(cycle.plan[q].readings) :
        ToString(cycle.plan[q].readings[k].Meter.meter_id)
          \in DOMAIN coordinator.data.meters

\* C24: when a cycle in which the fetch of a query fails has ended, the
\* readings of every other query, whose fetch succeeds, are merged into the
\* dataset, whether that query comes before or after the failing one.
C24_EverySuccessfulQueryMerged ==
    (cycle.out \in {"updated", "failed"}
       /\ \E f \in 1..Len(cycle.plan) : cycle.plan[f].raised)
    => \A q \in 1..Len(cycle.plan) : ~cycle.plan[q].raised => QueryMerged(q)

\* The increment records specified for the samples of `values` at the start
\* times ks, in ascending order of start time, on top of the sum `total`.
RECURSIVE RunningSums(_, _, _)
RunningSums(values, ks, total) ==
    IF ks = {} THEN <<>>
    ELSE LET t == CHOOSE k \in ks : \A j \in ks : k <= j
         IN <<[start |-> t, sum |-> total + values[t]]>>
            \o RunningSums(values, ks \ {t}, total + values[t])

\* C25: given a meter's series and the host's last statistic (timestamp and
\* sum), the derivation ends without an exception and hands over exactly one
\* record per sample that is strictly newer than the timestamp, in ascending
\* order, each with the previous running sum plus the sample's value.
\* (Stated for the calls in which line 71 has computed the cutoff.)
C25_OneRecordPerNewerSample ==
    (sensor.op = "update" /\ sensor.found /\ sensor.last_stat.known
       /\ sensor.raised # "ValueError")
    => /\ sensor.raised = ""
       /\ sensor.imported
            = RunningSums(sensor.values,
                          {t \in DOMAIN sensor.values : t > sensor.last_stat.start},
                          sensor.last_stat.sum)

\* C26: when the host has no statistic of the meter, the derivation ends
\* without an exception and hands over a record for every sample of the
\* series, the running sum starting from zero.
C26_NoPriorStatisticStartsFromZero ==
    (sensor.op = "update" /\ sensor.found /\ ~sensor.last_stat.known)
    => /\ sensor.raised = ""
       /\ sensor.imported = RunningSums(sensor.values, DOMAIN sensor.values, 0)

\* The requests of one B2C flow, in the order of lines 102, 129, 134, 151.
B2CSteps == <<"authorize", "selfasserted", "confirmed", "token">>

\* C31: the requests a B2C flow has sent are the steps authorize,
\* SelfAsserted, confirmed, token in that order, each at most once; a
\* token request with grant_type=authorization_code is the fourth request
\* of such a flow, it carries the code of the Location header the confirmed
\* step returned, and its verifier is the one whose challenge the flow's
\* /authorize request carried.
C31_B2CStepsInOrder ==
    \A c \in Callers :
        /\ path[c] = "b2c" =>
             /\ Len(sent[c]) <= Len(B2CSteps)
             /\ \A i \in 1..Len(sent[c]) : sent[c][i].kind = B2CSteps[i]
        /\ \A i \in 1..Len(sent[c]) :
             sent[c][i].grant = "authorization_code" =>
               /\ path[c] = "b2c" /\ i = 4
               /\ sent[c][i].code = AuthCode
               /\ Challenge(sent[c][i].code_verifier) = sent[c][1].code_challenge

\* C31 witness: a flow that has sent all four requests and awaits the
\* answer of the token exchange.
C31_Witness ==
    \E c \in Callers :
        /\ pc[c] = "token_wait" /\ path[c] = "b2c"
        /\ Len(sent[c]) = 4
        /\ sent[c][4] = TokenExchange(AuthCode, CodeVerifier(c))

\* The three fetches of the metadata resolution (client.py 24, 28, 32).
MetadataOps == {"get_mapping_configuration", "get_allocation_units", "get_meters"}

\* C32: a get_consumption call of BrunataClient in which the mapping,
\* allocation-unit or meter fetch of the metadata resolution failed (came
\* back as an error Result) sends no consumption request.
C32_NoConsumptionAfterFailedMetadata ==
    (api.op = "get_consumption" /\ api.requests > 0)
    => client.errors \cap MetadataOps = {}

\* C33: once a metadata resolution has completed (configure_metadata has
\* returned), no call of the client fetches the mapping table, the
\* allocation units or the raw meters again, also when the resolved catalog
\* holds no meter.
C33_CatalogResolvedOnce == client.resolved => client.pc \notin MetadataOps

\* C34: the Token Store changes only in the step of _get_tokens that runs
\* lines 236-255 on the payload its flow produced, and then to the result
\* of that merge; the steps of the B2C flow, the refresh request, the
\* request wrapper and the API operations leave it as it is.
C34_StoreWrittenOnlyByGetTokens ==
    [][tokens' # tokens
       => \E c \in Callers :
            /\ Ends(c)
            /\ ret'[c].kind \in {"true", "false"}
            /\ last'.caller = c /\ last'.got
            /\ tokens' = StoreAfter(last'.payload, tokens, now)]_vars

\* C34 witness: an API operation whose _get_tokens call has just stored the
\* token set it was answered with.
C34_Witness ==
    /\ api.pc = "auth" /\ pc[ApiCaller] = "done"
    /\ last.caller = ApiCaller /\ last.got
    /\ path[ApiCaller] \in {"b2c", "renew"}
    /\ tokens # EmptyDict
    /\ tokens = Update(tokens, last.payload)

\* C35: whenever the Token Store is non-empty, the session's Authorization
\* header is "{token_type} {access_token}" of the stored token set, also
\* after a token write that an error interrupted between the header update
\* and the store update.
C35_HeaderMatchesStore == DOMAIN tokens # {} => authorization = Header(tokens)

\* C36: a _get_tokens call that returns, returns true exactly when the
\* Token Store is non-empty at that moment, and when it returns true the
\* stored token set holds a non-empty access token.
C36_TrueIffStoreNonEmpty ==
    [][\A c \in Callers :
         (Ends(c) /\ ret'[c].kind # "raised")
         => /\ ret'[c].kind \in {"true", "false"}
            /\ ret'[c].kind = "true" <=> DOMAIN tokens' # {}
            /\ ret'[c].kind = "true" => Truthy(Get(tokens', "access_token"))]_vars

\* C36 witness: a call that ran a flow and has just returned true, with
\* the access token of its payload in the store.
C36_Witness ==
    /\ pc[ApiCaller] = "done" /\ ret[ApiCaller].kind = "true"
    /\ last.caller = ApiCaller /\ last.got
    /\ path[ApiCaller] = "b2c"
    /\ Truthy(Get(tokens, "access_token"))
    /\ Get(tokens, "access_token") = Get(last.payload, "access_token")

\* A cycle that fetches begins: it computes its window and awaits its first
\* query.
CycleBegins == coordinator.pc = "idle" /\ coordinator'.pc = "running"

\* C37: the window of the first cycle begins 7 days before its end; the
\* window of a cycle after one in which every query succeeded begins at that
\* cycle's end; the window of a cycle after a failed one begins where the
\* failed cycle's window began (or again 7 days before now while no cycle
\* has succeeded); and last_update_success becomes a time only when a cycle
\* has fetched and merged all its queries, and then that cycle's end.
C37_ContiguousWindows ==
    [][/\ CycleBegins =>
            CASE cycle.out = "updated" -> cycle'.start = DateTime(cycle.end)
              [] cycle.out = "failed" ->
                   \/ cycle'.start = cycle.start
                   \/ /\ cycle.start = DateTime(cycle.end - Week)
                      /\ cycle'.start = DateTime(cycle'.end - Week)
              [] OTHER -> cycle'.start = DateTime(cycle'.end - Week)
       /\ ( /\ coordinator'.last_update_success # coordinator.last_update_success
            /\ coordinator'.last_update_success.type = "datetime" )
          => /\ cycle'.out = "updated"
             /\ coordinator'.last_update_success = DateTime(cycle'.end)]_vars

\* C38: the upsert is unconditional.  After a merge, a start-time for which
\* the last sample merged for a meter has no value (consumption is None) is
\* a key of the meter's series and its entry is the absent value, whatever
\* the series held for that start-time before.
C38_AbsentValueOverwrites ==
    merge.op = "merge"
    => \A id \in ReadingMeters :
         LET samples == SamplesOf(id, 1) IN
         \A j \in 1..Len(samples) :
            LastValueAt(samples, samples[j].fromDate) = None
            => /\ id \in DOMAIN data
               /\ samples[j].fromDate \in DOMAIN data[id]
               /\ data[id][samples[j].fromDate] = None

\* C39: the catalog only grows.  No step removes an entry, and an entry
\* changes only in a configure_metadata call whose rows carry its meter id;
\* a meter resolved earlier stays when a later feed no longer contains it.
C39_CatalogOnlyGrows ==
    [][\A m \in DOMAIN meters :
         /\ m \in DOMAIN meters'
         /\ meters'[m] # meters[m]
            => /\ reader'.op = "configure"
               /\ \E i \in 1..Len(reader'.rows) : reader'.rows[i].meterId = m]_vars

\* C39 witness: a re-resolution whose rows no longer carry a meter resolved
\* earlier, and add another: both are in the catalog.
C39_Witness ==
    /\ reader.op = "configure" /\ ~reader.raised
    /\ Len(reader.rows) > 0
    /\ \E m \in DOMAIN reader.before :
         /\ \A i \in 1..Len(reader.rows) : reader.rows[i].meterId # m
         /\ m \in DOMAIN meters /\ meters[m] = reader.before[m]
    /\ DOMAIN meters # DOMAIN reader.before

\* The stored reading with the greatest date, None when none is stored.
GreatestReading(readings) ==
    IF DOMAIN readings = {} THEN NoReading
    ELSE readings[CHOOSE d \in DOMAIN readings : \A e \in DOMAIN readings : e <= d]

\* C40: add_reading is first-write-wins per reading date.  A call whose
\* date is present and not yet stored stores the reading under that date and
\* returns true; every other call returns false and leaves the readings and
\* the latest reading as they were; and latest_reading is always the stored
\* reading with the greatest date.
C40_FirstWriteWins ==
    /\ legacy.latest_reading = GreatestReading(legacy.readings)
    /\ legacy.op = "add_reading" =>
         LET date == legacy.json.readingDate IN
         IF date # None /\ date \notin DOMAIN legacy.before.readings
         THEN /\ legacy.returned
              /\ DOMAIN legacy.readings = DOMAIN legacy.before.readings \cup {date}
              /\ legacy.readings[date].id = legacy.json.readingId
              /\ legacy.readings[date].date = date
              /\ \A d \in DOMAIN legacy.before.readings :
                   legacy.readings[d] = legacy.before.readings[d]
         ELSE /\ ~legacy.returned
              /\ legacy.readings = legacy.before.readings
              /\ legacy.latest_reading = legacy.before.latest_reading

\* C40 witness: a reading for a date that is stored with another id was
\* refused, on a meter that holds a reading of a later date as well.
C40_Witness ==
    /\ legacy.op = "add_reading" /\ ~legacy.returned
    /\ legacy.json.readingDate \in DOMAIN legacy.readings
    /\ legacy.readings[legacy.json.readingDate].id # legacy.json.readingId
    /\ legacy.latest_reading.date > legacy.json.readingDate

====
